---------------------------- MODULE Spec2Model ----------------------------
(***************************************************************************)
(* Traffic counter: DirectionCounter (src/utils.py) and the frame loop of  *)
(* VideoProcessor.process (src/processor.py).                              *)
(*                                                                         *)
(* The tracker behind NorfairTrackerWrapper.update is the third-party      *)
(* norfair.Tracker; its code is not part of the repository.  The model     *)
(* takes the list of tracks the wrapper returns as an input of each frame: *)
(* any list of {id, centroid, class_id} records with distinct ids.         *)
(***************************************************************************)
EXTENDS Integers, Sequences, FiniteSets, TLC

(***************************************************************************)
(* Bounds of the model.                                                    *)
(***************************************************************************)
\* under Spec, update_tracks is not taken once the four buckets would sum above MaxTotal
MaxTotal == 2
\* the video holds at most MaxFrames frames, and max_frames is at most MaxFrames
MaxFrames == 2

\* the identities the tracker hands out in the model
TrackIds == {1, 2}

(***************************************************************************)
(* Program constants.                                                      *)
(***************************************************************************)
\* class id of "person" (COCO), tested by update_tracks and by process
PEDESTRIAN_CLASS_ID == 0
\* class id of "car"
CAR_CLASS_ID == 2

\* class_id = None: a track the wrapper reports without detection data
NoClass == -2

\* the class ids detect returns in the model
ClassIds == {PEDESTRIAN_CLASS_ID, CAR_CLASS_ID}

\* the class ids a track can carry
TrackClassIds == ClassIds \cup {NoClass}

Directions == {"North", "South", "East", "West"}

\* max_frames = None
NoLimit == -1

\* (frame_width, frame_height) a DirectionCounter is constructed with
Dims == {<<4, 4>>, <<2, 6>>}

\* centroids the tracker reports
Points == {<<0, 2>>, <<2, 3>>}

\* One element of the list update_tracks receives.
Track(id, xy, cls) == [id |-> id, centroid |-> xy, class_id |-> cls]

\* The ids of S in increasing order.
RECURSIVE SortedIds(_)
SortedIds(S) ==
    IF S = {} THEN <<>>
    ELSE LET m == CHOOSE x \in S : \A y \in S : x <= y
         IN  <<m>> \o SortedIds(S \ {m})

\* Every list of tracks over the ids of TrackIds, one entry per id at most,
\* with class ids of classes.
TrackListsOver(classes) ==
    UNION { { [i \in 1..Cardinality(S) |->
                 Track(SortedIds(S)[i], f[SortedIds(S)[i]][1], f[SortedIds(S)[i]][2])]
              : f \in [S -> Points \X classes] }
            : S \in SUBSET TrackIds }

\* The lists update_tracks is called with under Spec (for update_tracks a
\* class_id of None is one more class_id that is not 0).
TrackLists == TrackListsOver(ClassIds)

\* The lists NorfairTrackerWrapper.update returns.
TrackerLists == TrackListsOver(TrackClassIds)

VARIABLES
    first_position,       \* DirectionCounter.first_position: id -> first centroid, tagged when ignored
    last_position,        \* DirectionCounter.last_position: id -> latest centroid
    seen_ids,             \* DirectionCounter.seen_ids
    counters,             \* DirectionCounter.counters
    w, h,                 \* DirectionCounter.w, DirectionCounter.h
    exclude_pedestrians,  \* DirectionCounter.exclude_pedestrians
    current_ids,          \* update_tracks' local current_ids, as the last call left it
    disappeared,          \* update_tracks' local disappeared, as the last call left it
    snapshot,             \* the counts process handed to draw_overlay with the last frame
    kept,                 \* the dict a caller of get_counts kept, as it is now
    kept_is,              \* which dict that is: "none", "copy" (a dict of its own) or "counters" (self.counters itself)
    op,                   \* the last call made on the counter, or on the dict it returned
    ever_retired,         \* history: the ids update_tracks has retired so far
    first_person,         \* history: id -> whether it was registered with class_id 0
    pc,                   \* where VideoProcessor.process is: "idle", "loop", "returned", "raised"
    opened,               \* cap.isOpened()
    frames_left,          \* the frames cap.read() will still deliver
    max_frames,           \* process' argument max_frames (NoLimit for None)
    frame_idx,            \* process' local frame_idx
    fed,                  \* the class ids of the detections handed to the tracker so far
    result,               \* the counts process returned
    processed,            \* history: the frames that passed through detect, track and count
    reported,             \* history: the ids the tracker has reported to the counter
    fed_malformed         \* history: whether a detection with x1 >= x2 or y1 >= y2 was handed to the tracker

counterVars == <<first_position, last_position, seen_ids, counters, w, h,
                 exclude_pedestrians, current_ids, disappeared, snapshot, kept,
                 kept_is, op, ever_retired, first_person>>

processVars == <<pc, opened, frames_left, max_frames, frame_idx, fed, result,
                 processed, reported, fed_malformed>>

vars == <<first_position, last_position, seen_ids, counters, w, h,
          exclude_pedestrians, current_ids, disappeared, snapshot, kept,
          kept_is, op, ever_retired, first_person, pc, opened, frames_left,
          max_frames, frame_idx, fed, result, processed, reported, fed_malformed>>

Abs(x) == IF x < 0 THEN -x ELSE x

\* The dict of counters with "North" starting at 1.
CountersNorthOne == [d \in Directions |-> IF d = "North" THEN 1 ELSE 0]

\* {"North":0, "South":0, "East":0, "West":0}
ZeroCounters == [d \in Directions |-> 0]

Total(c) == c["North"] + c["South"] + c["East"] + c["West"]

\* The empty dict.
EmptyMap == [x \in {} |-> 0]

\* m[k] = v
Put(m, k, v) == [x \in (DOMAIN m) \cup {k} |-> IF x = k THEN v ELSE m[x]]


(***************************************************************************)
(* DirectionCounter                                                        *)
(***************************************************************************)

\* FirstEntry without the "ignored" tag.
FirstEntryUntagged(excl, t) == [ignored |-> FALSE, xy |-> t.centroid]

\* The entry update_tracks stores for an id it has not registered: the
\* first centroid, tagged "ignored" for a person when pedestrians are excluded.
FirstEntry(excl, t) ==
    IF excl /\ t.class_id = PEDESTRIAN_CLASS_ID
    THEN [ignored |-> TRUE, xy |-> t.centroid]
    ELSE [ignored |-> FALSE, xy |-> t.centroid]

\* Register without the test "tid not in self.first_position": every list
\* overwrites the first position.
RECURSIVE RegisterOverwrites(_, _, _, _, _)
RegisterOverwrites(tracks, n, fp, lp, excl) ==
    IF n = 0 THEN [first |-> fp, last |-> lp, ids |-> {}]
    ELSE LET r   == RegisterOverwrites(tracks, n - 1, fp, lp, excl)
             t   == tracks[n]
             tid == t.id
         IN  [first |-> Put(r.first, tid, FirstEntry(excl, t)),
              last  |-> Put(r.last, tid, t.centroid),
              ids   |-> r.ids \cup {tid}]

\* The first loop of update_tracks over tracks[1..n], from a counter whose
\* dicts are fp and lp: the dicts and current_ids after it.
RECURSIVE Register(_, _, _, _, _)
Register(tracks, n, fp, lp, excl) ==
    IF n = 0 THEN [first |-> fp, last |-> lp, ids |-> {}]
    ELSE LET r   == Register(tracks, n - 1, fp, lp, excl)
             t   == tracks[n]
             tid == t.id
         IN  [first |-> IF tid \notin DOMAIN r.first
                        THEN Put(r.first, tid, FirstEntry(excl, t))
                        ELSE r.first,
              last  |-> Put(r.last, tid, t.centroid),
              ids   |-> r.ids \cup {tid}]

\* Disappeared with the difference taken the wrong way round.
DisappearedReversed(fp, ids) == ids \ (DOMAIN fp)

\* ids seen before but not this frame
Disappeared(fp, ids) == (DOMAIN fp) \ ids

\* The test update_tracks makes on a disappeared id's entry before counting.
IsIgnored(entry) == entry.ignored

\* Direction with a tie |dx| = |dy| decided on the East/West axis.
DirectionTieOnX(fx, fy, fw, fh) ==
    LET cx == fw \div 2
        cy == fh \div 2
        dx == fx - cx
        dy == fy - cy
    IN  IF Abs(dx) >= Abs(dy)
        THEN (IF dx < 0 THEN "West" ELSE "East")
        ELSE (IF dy < 0 THEN "North" ELSE "South")

\* The bucket a track first seen at (fx, fy) is counted in.
Direction(fx, fy, fw, fh) ==
    LET cx == fw \div 2
        cy == fh \div 2
        dx == fx - cx
        dy == fy - cy
    IN  IF Abs(dx) > Abs(dy)
        THEN (IF dx < 0 THEN "West" ELSE "East")
        ELSE (IF dy < 0 THEN "North" ELSE "South")

\* CountedIds without the test for the "ignored" tag.
CountedIdsAll(fp, dis) == dis

\* The disappeared ids of dis that the second loop of update_tracks counts.
CountedIds(fp, dis) == {tid \in dis : ~IsIgnored(fp[tid])}

\* Tally with -= in place of +=.
TallyDecrements(c, fp, dis, fw, fh) ==
    [d \in Directions |->
        c[d] - Cardinality({tid \in CountedIds(fp, dis) :
                               Direction(fp[tid].xy[1], fp[tid].xy[2], fw, fh) = d})]

\* Tally with = in place of +=.
TallyAssign(c, fp, dis, fw, fh) ==
    [d \in Directions |->
        Cardinality({tid \in CountedIds(fp, dis) :
                        Direction(fp[tid].xy[1], fp[tid].xy[2], fw, fh) = d})]

\* counters after the second loop of update_tracks has run over dis.
Tally(c, fp, dis, fw, fh) ==
    [d \in Directions |->
        c[d] + Cardinality({tid \in CountedIds(fp, dis) :
                               Direction(fp[tid].xy[1], fp[tid].xy[2], fw, fh) = d})]

\* Cleanup without the del: the dict m keeps the ids of dis.
CleanupKeeps(m, dis) == m

\* The dict m after the cleanup of the ids of dis.
Cleanup(m, dis) == [x \in (DOMAIN m) \ dis |-> m[x]]

\* The class_id of the first entry of tracks with id tid.
ClassIn(tracks, tid) ==
    LET i == CHOOSE j \in 1..Len(tracks) :
                 /\ tracks[j].id = tid
                 /\ \A k \in 1..(j - 1) : tracks[k].id # tid
    IN  tracks[i].class_id

\* The counter's fields and locals after update_tracks(tracks).
UpdateCounter(tracks) ==
    LET r   == Register(tracks, Len(tracks), first_position, last_position,
                        exclude_pedestrians)
        dis == Disappeared(r.first, r.ids)
    IN  /\ current_ids' = r.ids
        /\ disappeared' = dis
        /\ counters' = Tally(counters, r.first, dis, w, h)
        /\ first_position' = Cleanup(r.first, dis)
        /\ last_position' = Cleanup(r.last, dis)
        /\ ever_retired' = ever_retired \cup dis
        /\ first_person' = [tid \in (DOMAIN r.first) \ dis |->
                              IF tid \in DOMAIN first_position THEN first_person[tid]
                              ELSE ClassIn(tracks, tid) = PEDESTRIAN_CLASS_ID]
        /\ UNCHANGED <<seen_ids, w, h, exclude_pedestrians>>

\* counter.update_tracks(tracks)
UpdateTracks(tracks) ==
    /\ UpdateCounter(tracks)
    /\ Total(counters') <= MaxTotal
    /\ op' = "update_tracks"
    /\ kept' = IF kept_is = "counters" THEN counters' ELSE kept
    /\ UNCHANGED <<snapshot, kept_is>>
    /\ UNCHANGED processVars

\* dict(self.counters)
CountsCopy == [d \in DOMAIN counters |-> counters[d]]

\* counter.get_counts(): the caller receives CountsCopy, the counter is as it was
GetCounts ==
    /\ op' = "get_counts"
    /\ UNCHANGED <<first_position, last_position, seen_ids, counters, w, h,
                   exclude_pedestrians, current_ids, disappeared, snapshot, kept, kept_is,
                   ever_retired, first_person>>
    /\ UNCHANGED processVars

\* reset that leaves last_position as it is.
ResetKeepsLast ==
    /\ first_position' = EmptyMap
    /\ counters' = ZeroCounters
    /\ op' = "reset"
    /\ kept_is' = IF kept_is = "counters" THEN "copy" ELSE kept_is
    /\ first_person' = EmptyMap
    /\ UNCHANGED <<last_position, seen_ids, w, h, exclude_pedestrians, current_ids,
                   disappeared, snapshot, kept, ever_retired>>
    /\ UNCHANGED processVars

\* counter.reset()
Reset ==
    /\ first_position' = EmptyMap
    /\ last_position' = EmptyMap
    /\ counters' = ZeroCounters
    /\ op' = "reset"
    /\ kept_is' = IF kept_is = "counters" THEN "copy" ELSE kept_is
    /\ first_person' = EmptyMap
    /\ UNCHANGED <<seen_ids, w, h, exclude_pedestrians, current_ids, disappeared,
                   snapshot, kept, ever_retired>>
    /\ UNCHANGED processVars

\* The fields of DirectionCounter(fw, fh, excl), and the history of a counter
\* no call has been made on.
NewCounter(fw, fh, excl) ==
    /\ first_position = EmptyMap
    /\ last_position = EmptyMap
    /\ seen_ids = {}
    /\ counters = ZeroCounters
    /\ w = fw
    /\ h = fh
    /\ exclude_pedestrians = excl
    /\ current_ids = {}
    /\ disappeared = {}
    /\ snapshot = ZeroCounters
    /\ kept = ZeroCounters
    /\ kept_is = "none"
    /\ op = "init"
    /\ ever_retired = {}
    /\ first_person = EmptyMap

\* No process call is running.
NoProcess ==
    /\ pc = "idle"
    /\ opened = TRUE
    /\ frames_left = 0
    /\ max_frames = NoLimit
    /\ frame_idx = 0
    /\ fed = {}
    /\ result = ZeroCounters
    /\ processed = 0
    /\ reported = {}
    /\ fed_malformed = FALSE

Init ==
    /\ \E d \in Dims, excl \in BOOLEAN : NewCounter(d[1], d[2], excl)
    /\ NoProcess

Next ==
    \/ \E tracks \in TrackLists : UpdateTracks(tracks)
    \/ GetCounts
    \/ Reset

\* A DirectionCounter under any sequence of calls.
Spec == Init /\ [][Next]_vars

(***************************************************************************)
(* VideoProcessor.process                                                  *)
(***************************************************************************)

\* One element of the list YOLODetector.detect returns.
Det(box, cls) == [bbox |-> box, class_id |-> cls]

\* The lists detect returns in the model.
DetectionLists ==
    { <<>>,
      <<Det(<<0, 1, 2, 3>>, CAR_CLASS_ID)>>,
      <<Det(<<0, 1, 2, 3>>, PEDESTRIAN_CLASS_ID)>>,
      <<Det(<<0, 1, 2, 3>>, PEDESTRIAN_CLASS_ID), Det(<<1, 2, 3, 4>>, CAR_CLASS_ID)>>,
      <<Det(<<2, 1, 2, 3>>, CAR_CLASS_ID), Det(<<0, 1, 2, 3>>, CAR_CLASS_ID)>> }

\* [d for d in detections if d["class_id"] != 0], when exclude_pedestrians
FilterDetections(excl, dets) ==
    IF excl THEN SelectSeq(dets, LAMBDA d : d.class_id # PEDESTRIAN_CLASS_ID)
    ELSE dets

\* The list norfair_dets that NorfairTrackerWrapper.update builds from the
\* detections it is called with and passes to self.tracker.update: one norfair
\* Detection per element, at the centroid of its bbox (x1, y1, x2, y2).
NorfairDets(dets) ==
    [i \in 1..Len(dets) |->
        [points |-> <<(dets[i].bbox[1] + dets[i].bbox[3]) \div 2,
                      (dets[i].bbox[2] + dets[i].bbox[4]) \div 2>>,
         data   |-> dets[i]]]

\* C12: the malformed bounding box (x1, y1, x2, y2) of the claim, x1 >= x2
\* or y1 >= y2, for the history fed_malformed.
C12_Malformed(box) == box[1] >= box[3] \/ box[2] >= box[4]

\* The class ids of a list of detections.
ClassesOf(dets) == {dets[i].class_id : i \in 1..Len(dets)}

\* Whether NorfairTrackerWrapper.update can return the list tr once the
\* detections of classes cls have been handed to the tracker: each track
\* carries the data of a detection the tracker was given, or no data at all,
\* and a tracker that was never given a detection has no track to report.
TrackerReturns(cls, tr) ==
    /\ Len(tr) > 0 => cls # {}
    /\ \A i \in 1..Len(tr) : tr[i].class_id \in cls \cup {NoClass}

\* CapExceeded with >= in place of >.
CapExceededEarly(mf, idx) == (mf # NoLimit /\ mf # 0) /\ idx >= mf

\* if max_frames and frame_idx > max_frames
CapExceeded(mf, idx) == (mf # NoLimit /\ mf # 0) /\ idx > mf

\* OpenFails without the raise: process goes on to return the counts.
OpenFailsSilently ==
    /\ pc = "start"
    /\ ~opened
    /\ pc' = "returned"
    /\ UNCHANGED counterVars
    /\ UNCHANGED <<opened, frames_left, max_frames, frame_idx, fed, fed_malformed, result,
                   processed, reported>>

\* cap.isOpened() is false: process raises RuntimeError
OpenFails ==
    /\ pc = "start"
    /\ ~opened
    /\ pc' = "raised"
    /\ UNCHANGED counterVars
    /\ UNCHANGED <<opened, frames_left, max_frames, frame_idx, fed, fed_malformed, result,
                   processed, reported>>

\* the video opens: the counter is constructed, frame_idx = 0
Open ==
    /\ pc = "start"
    /\ opened
    /\ pc' = "loop"
    /\ frame_idx' = 0
    /\ first_position' = EmptyMap
    /\ last_position' = EmptyMap
    /\ seen_ids' = {}
    /\ counters' = ZeroCounters
    /\ op' = "init"
    /\ first_person' = EmptyMap
    /\ UNCHANGED <<w, h, exclude_pedestrians, current_ids, disappeared, snapshot, kept, kept_is,
                   ever_retired>>
    /\ UNCHANGED <<opened, frames_left, max_frames, fed, fed_malformed, result, processed,
                   reported>>

\* cap.read() fails: break, return counter.get_counts()
EndOfStream ==
    /\ pc = "loop"
    /\ frames_left = 0
    /\ pc' = "returned"
    /\ result' = CountsCopy
    /\ op' = "get_counts"
    /\ UNCHANGED <<first_position, last_position, seen_ids, counters, w, h,
                   exclude_pedestrians, current_ids, disappeared, snapshot, kept, kept_is,
                   ever_retired, first_person>>
    /\ UNCHANGED <<opened, frames_left, max_frames, frame_idx, fed, fed_malformed, processed,
                   reported>>

\* a frame is read past the cap: break, return counter.get_counts()
CapReached ==
    /\ pc = "loop"
    /\ frames_left > 0
    /\ CapExceeded(max_frames, frame_idx + 1)
    /\ frames_left' = frames_left - 1
    /\ frame_idx' = frame_idx + 1
    /\ pc' = "returned"
    /\ result' = CountsCopy
    /\ op' = "get_counts"
    /\ UNCHANGED <<first_position, last_position, seen_ids, counters, w, h,
                   exclude_pedestrians, current_ids, disappeared, snapshot, kept, kept_is,
                   ever_retired, first_person>>
    /\ UNCHANGED <<opened, max_frames, fed, fed_malformed, processed, reported>>

\* one iteration of the loop: detect, filter, track, count, draw
Frame(detections, tracks) ==
    /\ pc = "loop"
    /\ frames_left > 0
    /\ ~CapExceeded(max_frames, frame_idx + 1)
    /\ frames_left' = frames_left - 1
    /\ frame_idx' = frame_idx + 1
    /\ fed_malformed' =
          LET norfair_dets == NorfairDets(FilterDetections(exclude_pedestrians, detections))
          IN  \/ fed_malformed
              \/ \E i \in 1..Len(norfair_dets) : C12_Malformed(norfair_dets[i].data.bbox)
    /\ fed' = fed \cup ClassesOf(FilterDetections(exclude_pedestrians, detections))
    /\ TrackerReturns(fed', tracks)
    /\ UpdateCounter(tracks)
    /\ snapshot' = CountsCopy'
    /\ UNCHANGED <<kept, kept_is>>
    /\ op' = "get_counts"
    /\ processed' = processed + 1
    /\ reported' = reported \cup {tid \in current_ids' : ~IsIgnored(first_position'[tid])}
    /\ UNCHANGED <<pc, opened, max_frames, result>>

\* (width, height) of the video in the model
VideoDims == {<<4, 4>>}

\* process(input_path, output_path, max_frames) is called on a new VideoProcessor
InitProcess ==
    /\ \E d \in VideoDims, excl \in BOOLEAN : NewCounter(d[1], d[2], excl)
    /\ pc = "start"
    /\ opened \in BOOLEAN
    /\ frames_left \in 0..MaxFrames
    /\ max_frames \in {NoLimit} \cup 0..MaxFrames
    /\ frame_idx = 0
    /\ fed = {}
    /\ result = ZeroCounters
    /\ processed = 0
    /\ reported = {}
    /\ fed_malformed = FALSE

NextProcess ==
    \/ OpenFails
    \/ Open
    \/ EndOfStream
    \/ CapReached
    \/ \E detections \in DetectionLists, tracks \in TrackerLists : Frame(detections, tracks)

\* One call of VideoProcessor.process.
SpecProcess == InitProcess /\ [][NextProcess]_vars

(***************************************************************************)
(* A counter that watches one object: seen at a point, then gone.          *)
(***************************************************************************)

\* frame sizes: an even one, an odd one, and 640 x 480 with center (320, 240)
ClassifyDims == {<<4, 4>>, <<5, 3>>, <<640, 480>>}

\* first centroids: around the center (2, 2), on its axes, on its diagonals,
\* and the two points (50, 200) and (310, 10)
ClassifyPoints ==
    ({0, 2, 4} \X {0, 2, 4})
        \cup {<<0, 1>>, <<4, 3>>, <<1, 0>>, <<50, 200>>, <<310, 10>>}

\* the lists with no track, or with track 1 alone
ClassifyLists ==
    {<<>>} \cup {<<Track(1, xy, cls)>> : xy \in ClassifyPoints, cls \in ClassIds}

InitClassify ==
    /\ \E d \in ClassifyDims, excl \in BOOLEAN : NewCounter(d[1], d[2], excl)
    /\ NoProcess

\* update_tracks is called until the object has been retired
NextClassify ==
    \E tracks \in ClassifyLists : ever_retired = {} /\ UpdateTracks(tracks)

SpecClassify == InitClassify /\ [][NextClassify]_vars

(***************************************************************************)
(* A caller that keeps the dict get_counts returns                         *)
(***************************************************************************)

\* get_counts that returns self.counters itself, kept by the caller.
KeepCountersItself ==
    /\ op' = "get_counts"
    /\ kept' = counters
    /\ kept_is' = "counters"
    /\ UNCHANGED <<first_position, last_position, seen_ids, counters, w, h,
                   exclude_pedestrians, current_ids, disappeared, snapshot,
                   ever_retired, first_person>>
    /\ UNCHANGED processVars

\* counter.get_counts(), and the caller keeps the dict returned:
\* dict(self.counters) is a new dict with the items of self.counters.
KeepCounts ==
    /\ op' = "get_counts"
    /\ kept' = CountsCopy
    /\ kept_is' = "copy"
    /\ UNCHANGED <<first_position, last_position, seen_ids, counters, w, h,
                   exclude_pedestrians, current_ids, disappeared, snapshot,
                   ever_retired, first_person>>
    /\ UNCHANGED processVars

\* The caller does kept[d] += 1 on the dict it kept; when that dict is
\* self.counters itself the counter's counts change with it.
ModifyKept(d) ==
    /\ kept_is # "none"
    /\ kept[d] < MaxTotal
    /\ kept' = [kept EXCEPT ![d] = @ + 1]
    /\ counters' = IF kept_is = "counters" THEN kept' ELSE counters
    /\ op' = "kept_modified"
    /\ UNCHANGED <<first_position, last_position, seen_ids, w, h,
                   exclude_pedestrians, current_ids, disappeared, snapshot,
                   kept_is, ever_retired, first_person>>
    /\ UNCHANGED processVars

\* The buckets the caller modifies in the model.
ModifiedKeys == {"North", "West"}

\* The lists update_tracks is called with while a dict is kept: one car.
SnapshotLists ==
    {tracks \in TrackLists :
        \A i \in 1..Len(tracks) : tracks[i].id = 1 /\ tracks[i].class_id = CAR_CLASS_ID}

InitSnapshot ==
    /\ \E d \in VideoDims : NewCounter(d[1], d[2], FALSE)
    /\ NoProcess

NextSnapshot ==
    \/ \E tracks \in SnapshotLists : UpdateTracks(tracks)
    \/ KeepCounts
    \/ Reset
    \/ \E d \in ModifiedKeys : ModifyKept(d)

\* A DirectionCounter and a caller that keeps and modifies what get_counts
\* returned.
SpecSnapshot == InitSnapshot /\ [][NextSnapshot]_vars

(***************************************************************************)
(* Claims                                                                  *)
(***************************************************************************)

\* C1: no track identity appears in more than one retirement event: an
\* update_tracks call never retires an id that an earlier call has retired,
\* also when the id was absent from one list and present again in a later one.
C1_RetiredOnce ==
    [][op' = "update_tracks" => disappeared' \cap ever_retired = {}]_vars

\* C2: when process returns at the end of the stream with no frame cap, the
\* four buckets sum to the number of tracks the tracker reported that were not
\* ignored, the tracks still live in the last frame included.
C2_Conservation ==
    (pc = "returned" /\ max_frames \in {NoLimit, 0})
        => Total(result) = Cardinality(reported)

\* The bucket the claim C3 names for a first centroid xy in a frame fw x fh.
C3_Bucket(xy, fw, fh) ==
    LET dx == xy[1] - (fw \div 2)
        dy == xy[2] - (fh \div 2)
    IN  CASE Abs(dx) > Abs(dy) /\ dx < 0 -> "West"
          [] Abs(dx) > Abs(dy) /\ dx >= 0 -> "East"
          [] Abs(dy) >= Abs(dx) /\ dy < 0 -> "North"
          [] Abs(dy) >= Abs(dx) /\ dy >= 0 -> "South"

\* C3: every update_tracks call raises each bucket by the number of retired,
\* non-ignored tracks whose first centroid the rule of the claim puts in it
\* (West/East when |dx| > |dy|, by the sign of dx; else North/South, by the
\* sign of dy, ties and the center included); with center (320, 240) the rule
\* puts (50, 200) in West and (310, 10) in North.
C3_Classification ==
    [][op' = "update_tracks" =>
        /\ C3_Bucket(<<50, 200>>, 640, 480) = "West"
        /\ C3_Bucket(<<310, 10>>, 640, 480) = "North"
        /\ \A d \in Directions :
              counters'[d] - counters[d] =
                  Cardinality({tid \in disappeared' :
                                  /\ ~first_position[tid].ignored
                                  /\ C3_Bucket(first_position[tid].xy, w, h) = d})]_vars

\* C3 witness: in a 640 x 480 frame a track has been retired and counted North
\* (of the points of the model only (310, 10) lies North of (320, 240)).
C3_Witness ==
    /\ w = 640 /\ h = 480
    /\ op = "update_tracks"
    /\ disappeared = {1}
    /\ counters["North"] = 1

\* C5: with pedestrian exclusion enabled, an id registered with class person
\* is marked ignored in every state in which it is registered, whatever the
\* later lists report for it, and an update_tracks call raises the sum of the
\* buckets only by the retired ids that were not registered as person.
C5_PedestrianIgnored ==
    [][exclude_pedestrians =>
        /\ \A tid \in DOMAIN first_position' :
              first_person'[tid] => first_position'[tid].ignored
        /\ op' = "update_tracks" =>
              Total(counters') - Total(counters) =
                  Cardinality({tid \in disappeared' : ~first_person[tid]})]_vars

\* C5 witness: with exclusion enabled, track 1, registered as person, has
\* been retired by the last call and no bucket has moved.
C5_Witness ==
    /\ exclude_pedestrians
    /\ op = "update_tracks"
    /\ disappeared = {1}
    /\ ever_retired = {1}
    /\ counters = ZeroCounters

\* C7: a bucket decreases only in a step that is reset().
C7_Monotone ==
    [][(\E d \in Directions : counters'[d] < counters[d]) => op' = "reset"]_vars

\* C7 witness: an update_tracks call has retired a track with the buckets
\* already counting an earlier one.
C7_Witness ==
    /\ op = "update_tracks"
    /\ disappeared # {}
    /\ Total(counters) >= 2

\* C8: process never passes more than max_frames > 0 frames through detection,
\* tracking and counting; it returns after min(max_frames, frames of the video)
\* frames, or after the whole video when max_frames is 0 or None; the counts
\* it returns are those after the last processed frame's update, and the
\* tracks live then are still registered, uncounted.
C8_FrameCap ==
    /\ (max_frames # NoLimit /\ max_frames # 0) => processed <= max_frames
    /\ pc = "returned" =>
          /\ IF max_frames # NoLimit /\ max_frames # 0
             THEN processed < max_frames => frames_left = 0
             ELSE frames_left = 0
          /\ result = counters
          /\ processed > 0 => result = snapshot
          /\ DOMAIN first_position = current_ids

\* C8 witness: process has returned after max_frames frames with a further
\* frame read and dropped, and a track still registered.
C8_Witness ==
    /\ pc = "returned"
    /\ max_frames >= 1
    /\ processed = max_frames
    /\ frame_idx = max_frames + 1
    /\ first_position # EmptyMap

\* C9: after reset() the four buckets are 0 and first_position and
\* last_position are empty.
C9_Reset ==
    op = "reset" =>
        /\ counters = ZeroCounters
        /\ first_position = EmptyMap
        /\ last_position = EmptyMap

\* C9 witness: reset() on a counter that has counted tracks and whose last
\* update_tracks call left tracks registered.
C9_Witness ==
    /\ op = "reset"
    /\ ~exclude_pedestrians
    /\ ever_retired # {}
    /\ current_ids # {}

\* C10: an update_tracks call retires every id that was registered before it
\* and is absent from its list: the id is unregistered by that call, and the
\* buckets rise by the number of such ids that are not ignored.
C10_ImmediateRetirement ==
    [][op' = "update_tracks" =>
        LET missed == (DOMAIN first_position) \ current_ids'
        IN  /\ missed \subseteq disappeared'
            /\ missed \cap (DOMAIN first_position') = {}
            /\ Total(counters') - Total(counters) =
                   Cardinality({tid \in missed : ~first_position[tid].ignored})]_vars

\* C10 witness: the last call retired and counted a track while another
\* track stayed registered.
C10_Witness ==
    /\ op = "update_tracks"
    /\ disappeared # {}
    /\ current_ids # {}
    /\ Total(counters) > 0

\* C11 as stated: process never returns counts after the video failed to
\* open or a frame read failed; it returns only by the frame cap.
C11_FailureSurfaced ==
    pc = "returned" => (opened /\ CapExceeded(max_frames, frame_idx))

\* C11 as amended: a video that does not open ends process with RuntimeError
\* and nothing else does; a failed frame read (the end of the stream or a read
\* error) ends the loop, and process returns the counts reached so far.
C11_OpenFailureRaises ==
    [][/\ ~opened => pc' = "raised"
       /\ pc' = "raised" => ~opened
       /\ (pc = "loop" /\ frames_left = 0) =>
              (pc' = "returned" /\ result' = counters)]_vars

\* C11 witness: after at least one frame a read failed below the cap and
\* process returned.
C11_Witness ==
    /\ pc = "returned"
    /\ frames_left = 0
    /\ processed >= 1
    /\ ~CapExceeded(max_frames, frame_idx)

\* C14: the counters, and the dict get_counts returns, have exactly the keys
\* North, South, East and West, each a natural number, all 0 on a new counter.
C14_FourKeys ==
    /\ DOMAIN counters = {"North", "South", "East", "West"}
    /\ \A d \in DOMAIN counters : counters[d] \in Nat
    /\ DOMAIN CountsCopy = {"North", "South", "East", "West"}
    /\ \A d \in DOMAIN CountsCopy : CountsCopy[d] \in Nat
    /\ op = "init" => \A d \in DOMAIN counters : counters[d] = 0

\* C14 witness: get_counts is called on a counter that has counted and been
\* left with a track registered.
C14_Witness ==
    /\ op = "get_counts"
    /\ Total(counters) > 0
    /\ first_position # EmptyMap

\* C16: while an id stays registered its first_position entry (centroid and
\* ignored tag) does not change, whatever the later lists report; the entry is
\* the centroid of the list that registered the id; and a retired id is
\* counted in the bucket of that entry.
C16_FirstPositionFixed ==
    [][/\ \A tid \in (DOMAIN first_position) \cap (DOMAIN first_position') :
              first_position'[tid] = first_position[tid]
       /\ op' = "update_tracks" =>
              /\ \A tid \in (DOMAIN first_position') \ (DOMAIN first_position) :
                    first_position'[tid].xy = last_position'[tid]
              /\ \A d \in Directions :
                    counters'[d] - counters[d] =
                        Cardinality({tid \in disappeared' :
                                        /\ ~first_position[tid].ignored
                                        /\ C3_Bucket(first_position[tid].xy, w, h) = d})]_vars

\* C16 witness: a registered track has been reported at a centroid other
\* than its first.
C16_Witness ==
    /\ op = "update_tracks"
    /\ \E tid \in DOMAIN first_position :
          last_position[tid] # first_position[tid].xy

\* C19: when process returns and no detection was ever handed to the tracker
\* (no frame, or frames without detections), the four counts returned are 0.
C19_EmptyInput ==
    (pc = "returned" /\ fed = {}) => \A d \in Directions : result[d] = 0

\* C19 witness: process returned after frames without any detection.
C19_Witness ==
    /\ pc = "returned"
    /\ fed = {}
    /\ processed >= 1

\* C20: an update_tracks call raises the sum of the buckets by the number of
\* non-ignored ids registered before it and absent from its list, lowers no
\* bucket, and changes no bucket when there is no such id.
C20_OnePerRetired ==
    [][op' = "update_tracks" =>
        LET gone == {tid \in (DOMAIN first_position) \ current_ids' :
                        ~first_position[tid].ignored}
        IN  /\ Total(counters') = Total(counters) + Cardinality(gone)
            /\ \A d \in Directions : counters'[d] >= counters[d]
            /\ gone = {} => counters' = counters]_vars

\* C20 witness: one call retired an ignored track and a counted one.
C20_Witness ==
    /\ op = "update_tracks"
    /\ exclude_pedestrians
    /\ disappeared = {1, 2}
    /\ ever_retired = {1, 2}
    /\ Total(counters) = 1

\* C12: no detection with a malformed bounding box is in the list handed to
\* the tracker.
C12_MalformedRejected == ~fed_malformed

\* C17: the dict get_counts returned is the counts of that moment and is not
\* changed by a later update_tracks or reset; modifying it changes neither the
\* counter's counts nor what a later get_counts returns.
C17_SnapshotDecoupled ==
    [][/\ op' = "get_counts" => kept' = counters
       /\ op' \in {"update_tracks", "reset"} => kept' = kept
       /\ op' = "kept_modified" =>
              (counters' = counters /\ CountsCopy' = CountsCopy)]_vars

\* C17 witness: a dict kept before a retirement and then modified by the
\* caller differs from the counts, which are those of the retirement alone.
C17_Witness ==
    /\ kept_is = "copy"
    /\ op = "kept_modified"
    /\ Total(counters) = 1
    /\ Total(kept) = 1
    /\ kept # counters

\* C21: first_position and last_position always hold the same ids; right
\* after an update_tracks call these are exactly the ids of its list, and none
\* of them is an id the call retired.
C21_Compaction ==
    /\ DOMAIN first_position = DOMAIN last_position
    /\ op = "update_tracks" =>
          /\ DOMAIN first_position = current_ids
          /\ DOMAIN last_position = current_ids
          /\ (DOMAIN first_position) \cap disappeared = {}

\* C21 witness: a call has retired one id and kept the other, after both ids
\* had been retired before.
C21_Witness ==
    /\ op = "update_tracks"
    /\ disappeared = {1}
    /\ ever_retired = {1, 2}
    /\ DOMAIN first_position = {2}
    /\ DOMAIN last_position = {2}

=============================================================================
